---- MODULE Spec2Model ----
(***************************************************************************)
(* onion::Event<EventArgs> and onion::EventHandler (src/onion/Event.hpp).  *)
(*                                                                         *)
(* The Event owns m_handlers, a vector of (weak_ptr<Token>, function)      *)
(* tuples, and m_mutex, a non-recursive std::mutex.  An EventHandler owns  *)
(* a shared_ptr<Token>.  Threads call Subscribe, Unsubscribe, Trigger,     *)
(* Clear and ClearExpired; a callback invoked by Trigger runs on the       *)
(* calling thread and may call any of them again.  Every thread has a call *)
(* stack of frames; a frame's pc is the statement it executes next.        *)
(***************************************************************************)
EXTENDS Integers, Sequences, FiniteSets, TLC

\* ------------------------------------------------------------------ bounds
\* How many operations user code performs in a run: calls of the Event's
\* methods and copies of an EventHandler.
MaxOps == 3

\* The same, for the runs in which no two operations overlap (SeqSpec).
MaxSeqOps == 4

\* The runs of LongSpec: one operation more than MaxOps, all interleavings, with
\* at most MaxSubs Subscribe calls among them.
MaxLongOps == 4
MaxSubs == 2

Threads == {1, 2}
\* One Token per Subscribe call; MaxSubs is below MaxOps.
Markers == 1..(IF MaxOps > MaxSeqOps THEN MaxOps ELSE MaxSeqOps)
\* The callables given to Subscribe; "empty" is a std::function with no target,
\* whose call throws std::bad_function_call.
Callbacks == {"cbA", "cbB", "empty"}
Payloads == {100, 150}

\* The empty shared_ptr, and the unlocked mutex.
Null == 0
Free == 0

VARIABLES
    m_handlers,   \* Event::m_handlers: sequence of <<token, handler>> tuples
    m_mutex,      \* Event::m_mutex: Free, or the thread that owns it
    stack,        \* per thread: its call stack of frames, innermost last
    held,         \* per Token: how many non-empty EventHandler objects own it
    nextToken,    \* the next Token make_shared allocates
    nops,         \* how many operations user code may still perform
    hist          \* history of the calls made so far (see Init)

vars == <<m_handlers, m_mutex, stack, held, nextToken, nops, hist>>

\* ------------------------------------------------------------------ frames
NoSnap == [reg |-> {}, unsub |-> {}, held |-> {}, cleared |-> FALSE]

Frame(op, ptr, handler, args) ==
    [op |-> op, pc |-> "lock", ptr |-> ptr, handler |-> handler, args |-> args,
     tmpHandlers |-> <<>>, i |-> 1, inv |-> <<>>, snap |-> NoSnap, dead0 |-> {},
     exp0 |-> {}, kept |-> <<>>, tmp |-> Null]

Top(t) == stack[t][Len(stack[t])]

Push(t, f) == [stack EXCEPT ![t] = Append(@, f)]

Pop(t) == [stack EXCEPT ![t] = SubSeq(@, 1, Len(@) - 1)]

SetTop(t, f) == [stack EXCEPT ![t] = [@ EXCEPT ![Len(@)] = f]]

AtTop(t, op, pc) ==
    /\ stack[t] # <<>>
    /\ Top(t).op = op
    /\ Top(t).pc = pc

\* The thread runs user code: outside every call, or in the body of a callback.
CanCall(t) == stack[t] = <<>> \/ AtTop(t, "Trigger", "call")

AllFrames == UNION {{<<t, k>> : k \in DOMAIN stack[t]} : t \in Threads}

\* ------------------------------------------------------- shared ownership
\* Mutant: the range-for reads m_handlers itself where it still has the index.
CurrentEntryLive(f) ==
    IF f.i <= Len(m_handlers) THEN m_handlers[f.i] ELSE f.tmpHandlers[f.i]

\* The tuple of tmpHandlers the range-for of Trigger is at.
CurrentEntry(f) == f.tmpHandlers[f.i]

\* A frame's local shared_ptrs to Token m: Subscribe's tokenPtr; Unsubscribe's
\* handlerId, until the call returns, and the temporary its predicate gets from
\* lock() on the tuple under test (tmp), until the comparison is made; Trigger's
\* lockedHandlerId, from lock() until the callback returns or handler(args)
\* has thrown.  The copies of handlerId in the lambda live inside the lifetime
\* of handlerId, so they never decide whether a Token is alive.
HoldsRef(f, m) ==
    \/ f.op = "Subscribe" /\ f.ptr = m
    \/ f.op = "Unsubscribe" /\ (f.ptr = m \/ f.tmp = m)
    \/ f.op = "Trigger" /\ f.pc \in {"call", "throw"} /\ CurrentEntry(f)[1] = m

\* Mutant: the Token is not shared: the first EventHandler destroyed releases it
\* for all its copies.
UseCountUnshared(m) ==
    (IF hist.made[m] > held[m] THEN 0 ELSE held[m])
        + Cardinality({x \in AllFrames : HoldsRef(stack[x[1]][x[2]], m)})

UseCount(m) ==
    held[m] + Cardinality({x \in AllFrames : HoldsRef(stack[x[1]][x[2]], m)})

Expired(m) == UseCount(m) = 0

\* weak_ptr::lock(): the Token, or the empty shared_ptr once it has expired.
WeakLock(m) == IF Expired(m) THEN Null ELSE m

\* The Tokens the tuples of h refer to.
Ids(h) == {h[j][1] : j \in DOMAIN h}

\* --------------------------------------------------------- vector updates
\* Each runs inside a lock_guard's block.  remove_if tests the tuples one by
\* one, each against the use count of the moment of its test (EventHandlers are
\* copied and destroyed without the mutex; the predicate of Unsubscribe owns the
\* Token of the tuple under test from its lock() to its comparison); it writes
\* m_handlers in place, which
\* no other thread reads before the lock_guard ends, so the frame gathers the
\* tuples kept so far (kept) and the erase step writes them to m_handlers.
\* Mutant: the new tuple is put at the front.
EmplaceFront(h, e) == <<e>> \o h

EmplaceBack(h, e) == Append(h, e)

\* Mutant: a kept tuple is put before the tuples kept so far (removal that does
\* not keep the order).
KeepFront(kept, e) == <<e>> \o kept

\* remove_if moves a tuple it keeps behind the tuples kept so far.
Keep(kept, e) == Append(kept, e)

\* Mutant: Unsubscribe removes the tuples that have expired, not the handler's.
MatchesExpired(locked, handlerId) == locked = Null

\* Mutant: Unsubscribe removes the expired tuples too, as if it ended in a prune.
MatchesOrExpired(locked, handlerId) == locked = handlerId \/ locked = Null

\* The comparison in the predicate of Unsubscribe's remove_if: locked is the
\* temporary that lock() on the tuple's weak_ptr returned.
Matches(locked, handlerId) == locked = handlerId

\* Mutant: the predicate of ClearExpired is use_count() <= 1, not expired().
IsExpiredUseCountOne(e) == UseCount(e[1]) <= 1

\* Mutant: the predicate of ClearExpired is inverted.
IsExpiredInverted(e) == ~Expired(e[1])

\* The predicate of ClearExpired's remove_if.
IsExpired(e) == Expired(e[1])

\* Mutant: Clear drops the expired tuples only.
ClearOnlyExpired(h) == SelectSeq(h, LAMBDA e : ~Expired(e[1]))

ClearAll(h) == <<>>

\* Mutant: the range-for runs to the end of m_handlers, not of its copy.
AfterEntryLive(f) == IF f.i + 1 > Len(m_handlers) THEN "done" ELSE "loop"

\* Where the range-for goes after tuple f.i: to the next tuple, or to its end.
AfterEntry(f) == IF f.i + 1 > Len(f.tmpHandlers) THEN "done" ELSE "loop"

\* ------------------------------------------------------------------- Init
\* A default-constructed Event.  hist records what the calls so far have done:
\*   reg      the Tokens whose tuple was appended and that no Unsubscribe with
\*            their token and no Clear has removed since
\*   unsub    the Tokens for which Unsubscribe with their token has returned
\*   noop     the Tokens for which an Unsubscribe with their token found no
\*            tuple of theirs in m_handlers
\*   cleared  Clear has returned and no tuple has been appended since
\*   cb       the callback given to the Subscribe call that made the Token
\*   made     how many EventHandlers of the Token have been constructed
\* A Trigger frame keeps hist.reg, hist.unsub, hist.cleared and the set of
\* Tokens with an EventHandler as they were at its snapshot (snap), the Tokens
\* whose EventHandlers were all destroyed when it was called (dead0), and the
\* invocations it has made (inv), each with whether the subscription was still
\* registered (reg) and an EventHandler of it existed (held) then.  A Subscribe
\* frame keeps dead0 too, and the Tokens that had expired when it was called
\* (exp0); a ClearExpired frame keeps in exp0 the Tokens of m_handlers that had
\* expired when it took the mutex.
Init ==
    /\ m_handlers = <<>>
    /\ m_mutex = Free
    /\ stack = [t \in Threads |-> <<>>]
    /\ held = [m \in Markers |-> 0]
    /\ nextToken = 1
    /\ nops = MaxOps
    /\ hist = [reg |-> {}, unsub |-> {}, noop |-> {}, cleared |-> FALSE,
               cb |-> [m \in Markers |-> "none"], made |-> [m \in Markers |-> 0]]

\* -------------------------------------------------------------- Subscribe
SubscribeCall(t, handler) ==
    /\ CanCall(t)
    /\ nops > 0
    /\ stack' = Push(t, [Frame("Subscribe", nextToken, handler, 0) EXCEPT
                            !.dead0 = {m \in Markers : hist.made[m] >= 1 /\ held[m] = 0},
                            !.exp0 = {m \in Markers : hist.made[m] >= 1 /\ Expired(m)}])
    /\ nextToken' = nextToken + 1
    /\ nops' = nops - 1
    /\ hist' = [hist EXCEPT !.cb[nextToken] = handler]
    /\ UNCHANGED <<m_handlers, m_mutex, held>>

SubscribeLock(t) ==
    /\ AtTop(t, "Subscribe", "lock")
    /\ m_mutex = Free
    /\ m_mutex' = t
    /\ stack' = SetTop(t, [Top(t) EXCEPT !.pc = "emplace"])
    /\ UNCHANGED <<m_handlers, held, nextToken, nops, hist>>

\* Mutant: the lock_guard's block is not closed before ClearExpired is called.
SubscribeEmplaceKeepLock(t) ==
    /\ AtTop(t, "Subscribe", "emplace")
    /\ m_handlers' = EmplaceBack(m_handlers, <<Top(t).ptr, Top(t).handler>>)
    /\ stack' = [stack EXCEPT ![t] =
                    Append([@ EXCEPT ![Len(@)].pc = "ret"], Frame("ClearExpired", Null, "none", 0))]
    /\ hist' = [hist EXCEPT !.reg = @ \cup {Top(t).ptr}, !.cleared = FALSE]
    /\ UNCHANGED <<m_mutex, held, nextToken, nops>>

\* Mutant: Subscribe does not call ClearExpired.
SubscribeEmplaceNoPrune(t) ==
    /\ AtTop(t, "Subscribe", "emplace")
    /\ m_handlers' = EmplaceBack(m_handlers, <<Top(t).ptr, Top(t).handler>>)
    /\ m_mutex' = Free
    /\ stack' = SetTop(t, [Top(t) EXCEPT !.pc = "ret"])
    /\ hist' = [hist EXCEPT !.reg = @ \cup {Top(t).ptr}, !.cleared = FALSE]
    /\ UNCHANGED <<held, nextToken, nops>>

\* emplace_back, the end of the lock_guard's block, and the call of ClearExpired.
SubscribeEmplace(t) ==
    /\ AtTop(t, "Subscribe", "emplace")
    /\ m_handlers' = EmplaceBack(m_handlers, <<Top(t).ptr, Top(t).handler>>)
    /\ m_mutex' = Free
    /\ stack' = [stack EXCEPT ![t] =
                    Append([@ EXCEPT ![Len(@)].pc = "ret"], Frame("ClearExpired", Null, "none", 0))]
    /\ hist' = [hist EXCEPT !.reg = @ \cup {Top(t).ptr}, !.cleared = FALSE]
    /\ UNCHANGED <<held, nextToken, nops>>

\* return EventHandler(tokenPtr): the handler takes over tokenPtr's ownership.
SubscribeReturn(t) ==
    /\ AtTop(t, "Subscribe", "ret")
    /\ held' = [held EXCEPT ![Top(t).ptr] = 1]
    /\ hist' = [hist EXCEPT !.made[Top(t).ptr] = 1]
    /\ stack' = Pop(t)
    /\ UNCHANGED <<m_handlers, m_mutex, nextToken, nops>>

\* ----------------------------------------------------------- ClearExpired
ClearExpiredCall(t) ==
    /\ CanCall(t)
    /\ nops > 0
    /\ stack' = Push(t, Frame("ClearExpired", Null, "none", 0))
    /\ nops' = nops - 1
    /\ UNCHANGED <<m_handlers, m_mutex, held, nextToken, hist>>

ClearExpiredLock(t) ==
    /\ AtTop(t, "ClearExpired", "lock")
    /\ m_mutex = Free
    /\ m_mutex' = t
    /\ stack' = SetTop(t, [Top(t) EXCEPT
                            !.pc = "erase",
                            !.exp0 = {m \in Ids(m_handlers) : Expired(m)}])
    /\ UNCHANGED <<m_handlers, held, nextToken, nops, hist>>

\* remove_if tests the next tuple.
ClearExpiredTest(t) ==
    /\ AtTop(t, "ClearExpired", "erase")
    /\ Top(t).i <= Len(m_handlers)
    /\ stack' = SetTop(t, [Top(t) EXCEPT
                            !.kept = IF IsExpired(m_handlers[Top(t).i])
                                     THEN @ ELSE Keep(@, m_handlers[Top(t).i]),
                            !.i = @ + 1])
    /\ UNCHANGED <<m_handlers, m_mutex, held, nextToken, nops, hist>>

\* remove_if is through: erase, and the end of the lock_guard.
ClearExpiredErase(t) ==
    /\ AtTop(t, "ClearExpired", "erase")
    /\ Top(t).i > Len(m_handlers)
    /\ m_handlers' = Top(t).kept
    /\ m_mutex' = Free
    /\ stack' = Pop(t)
    /\ UNCHANGED <<held, nextToken, nops, hist>>

\* ------------------------------------------------------------ Unsubscribe
\* handlerId = eventHandler.m_handler: a copy of the caller's shared_ptr.  It is
\* empty when the EventHandler has been moved from; a move changes no use count,
\* so user code can hold a moved-from EventHandler once one has been issued.
\* Nothing reads eventHandler after this copy.
UnsubscribeCall(t, handlerId) ==
    /\ CanCall(t)
    /\ IF handlerId = Null THEN \E m \in Markers : hist.made[m] >= 1 ELSE held[handlerId] >= 1
    /\ nops > 0
    /\ stack' = Push(t, Frame("Unsubscribe", handlerId, "none", 0))
    /\ nops' = nops - 1
    /\ UNCHANGED <<m_handlers, m_mutex, held, nextToken, hist>>

UnsubscribeLock(t) ==
    /\ AtTop(t, "Unsubscribe", "lock")
    /\ m_mutex = Free
    /\ m_mutex' = t
    /\ stack' = SetTop(t, [Top(t) EXCEPT !.pc = "erase"])
    /\ UNCHANGED <<m_handlers, held, nextToken, nops, hist>>

\* remove_if calls the predicate on the next tuple: lock() on its weak_ptr gives
\* a temporary shared_ptr, which owns the tuple's Token unless it has expired.
UnsubscribeLockEntry(t) ==
    /\ AtTop(t, "Unsubscribe", "erase")
    /\ Top(t).i <= Len(m_handlers)
    /\ stack' = SetTop(t, [Top(t) EXCEPT
                            !.tmp = WeakLock(m_handlers[Top(t).i][1]),
                            !.pc = "compare"])
    /\ UNCHANGED <<m_handlers, m_mutex, held, nextToken, nops, hist>>

\* The predicate compares the temporary with handlerId and returns; the
\* temporary is destroyed.
UnsubscribeTest(t) ==
    /\ AtTop(t, "Unsubscribe", "compare")
    /\ stack' = SetTop(t, [Top(t) EXCEPT
                            !.kept = IF Matches(Top(t).tmp, Top(t).ptr)
                                     THEN @ ELSE Keep(@, m_handlers[Top(t).i]),
                            !.tmp = Null,
                            !.i = @ + 1,
                            !.pc = "erase"])
    /\ UNCHANGED <<m_handlers, m_mutex, held, nextToken, nops, hist>>

\* remove_if is through: erase, and the end of the lock_guard.  handlerId, which
\* was constructed before the lock_guard, is still alive.
UnsubscribeErase(t) ==
    /\ AtTop(t, "Unsubscribe", "erase")
    /\ Top(t).i > Len(m_handlers)
    /\ m_handlers' = Top(t).kept
    /\ m_mutex' = Free
    /\ stack' = SetTop(t, [Top(t) EXCEPT !.pc = "ret"])
    /\ hist' = IF Top(t).ptr = Null THEN hist
               ELSE [hist EXCEPT !.reg = @ \ {Top(t).ptr},
                                 !.noop = IF Top(t).ptr \in Ids(m_handlers)
                                          THEN @ ELSE @ \cup {Top(t).ptr}]
    /\ UNCHANGED <<held, nextToken, nops>>

\* handlerId is destroyed and Unsubscribe returns.
UnsubscribeReturn(t) ==
    /\ AtTop(t, "Unsubscribe", "ret")
    /\ stack' = Pop(t)
    /\ hist' = IF Top(t).ptr = Null THEN hist
               ELSE [hist EXCEPT !.unsub = @ \cup {Top(t).ptr}]
    /\ UNCHANGED <<m_handlers, m_mutex, held, nextToken, nops>>

\* ------------------------------------------------------------------ Clear
ClearCall(t) ==
    /\ CanCall(t)
    /\ nops > 0
    /\ stack' = Push(t, Frame("Clear", Null, "none", 0))
    /\ nops' = nops - 1
    /\ UNCHANGED <<m_handlers, m_mutex, held, nextToken, hist>>

ClearLock(t) ==
    /\ AtTop(t, "Clear", "lock")
    /\ m_mutex = Free
    /\ m_mutex' = t
    /\ stack' = SetTop(t, [Top(t) EXCEPT !.pc = "clear"])
    /\ UNCHANGED <<m_handlers, held, nextToken, nops, hist>>

ClearBody(t) ==
    /\ AtTop(t, "Clear", "clear")
    /\ m_handlers' = ClearAll(m_handlers)
    /\ m_mutex' = Free
    /\ stack' = Pop(t)
    /\ hist' = [hist EXCEPT !.reg = {}, !.cleared = TRUE]
    /\ UNCHANGED <<held, nextToken, nops>>

\* ---------------------------------------------------------------- Trigger
TriggerCall(t, args) ==
    /\ CanCall(t)
    /\ nops > 0
    /\ stack' = Push(t, [Frame("Trigger", Null, "none", args) EXCEPT
                            !.dead0 = {m \in Markers : hist.made[m] >= 1 /\ held[m] = 0}])
    /\ nops' = nops - 1
    /\ UNCHANGED <<m_handlers, m_mutex, held, nextToken, hist>>

TriggerLock(t) ==
    /\ AtTop(t, "Trigger", "lock")
    /\ m_mutex = Free
    /\ m_mutex' = t
    /\ stack' = SetTop(t, [Top(t) EXCEPT !.pc = "copy"])
    /\ UNCHANGED <<m_handlers, held, nextToken, nops, hist>>

\* Mutant: the lock_guard lives until Trigger returns.
TriggerCopyKeepLock(t) ==
    /\ AtTop(t, "Trigger", "copy")
    /\ stack' = SetTop(t, [Top(t) EXCEPT
                            !.tmpHandlers = m_handlers,
                            !.i = 1,
                            !.pc = IF m_handlers = <<>> THEN "done" ELSE "loop",
                            !.snap = [reg |-> hist.reg, unsub |-> hist.unsub,
                                      held |-> {m \in Markers : held[m] >= 1},
                                      cleared |-> hist.cleared]])
    /\ UNCHANGED <<m_handlers, m_mutex, held, nextToken, nops, hist>>

\* Mutant: the snapshot is moved out of m_handlers, not copied.
TriggerCopyMoves(t) ==
    /\ AtTop(t, "Trigger", "copy")
    /\ m_handlers' = <<>>
    /\ m_mutex' = Free
    /\ stack' = SetTop(t, [Top(t) EXCEPT
                            !.tmpHandlers = m_handlers,
                            !.i = 1,
                            !.pc = IF m_handlers = <<>> THEN "done" ELSE "loop",
                            !.snap = [reg |-> hist.reg, unsub |-> hist.unsub,
                                      held |-> {m \in Markers : held[m] >= 1},
                                      cleared |-> hist.cleared]])
    /\ UNCHANGED <<held, nextToken, nops, hist>>

\* tmpHandlers = m_handlers, and the end of the lock_guard's block.
TriggerCopy(t) ==
    /\ AtTop(t, "Trigger", "copy")
    /\ m_mutex' = Free
    /\ stack' = SetTop(t, [Top(t) EXCEPT
                            !.tmpHandlers = m_handlers,
                            !.i = 1,
                            !.pc = IF m_handlers = <<>> THEN "done" ELSE "loop",
                            !.snap = [reg |-> hist.reg, unsub |-> hist.unsub,
                                      held |-> {m \in Markers : held[m] >= 1},
                                      cleared |-> hist.cleared]])
    /\ UNCHANGED <<m_handlers, held, nextToken, nops, hist>>

\* handlerId.lock() yields the empty pointer: the entry is skipped.
TriggerSkip(t) ==
    /\ AtTop(t, "Trigger", "loop")
    /\ WeakLock(CurrentEntry(Top(t))[1]) = Null
    /\ stack' = SetTop(t, [Top(t) EXCEPT !.i = @ + 1, !.pc = AfterEntry(Top(t))])
    /\ UNCHANGED <<m_handlers, m_mutex, held, nextToken, nops, hist>>

\* handlerId.lock() yields the Token: lockedHandlerId owns it while handler(args) runs.
TriggerInvoke(t) ==
    /\ AtTop(t, "Trigger", "loop")
    /\ WeakLock(CurrentEntry(Top(t))[1]) # Null
    /\ CurrentEntry(Top(t))[2] # "empty"
    /\ stack' = SetTop(t, [Top(t) EXCEPT
                            !.pc = "call",
                            !.inv = Append(@, [id |-> CurrentEntry(Top(t))[1],
                                               handler |-> CurrentEntry(Top(t))[2],
                                               args |-> Top(t).args,
                                               reg |-> CurrentEntry(Top(t))[1] \in hist.reg,
                                               held |-> held[CurrentEntry(Top(t))[1]] >= 1])])
    /\ UNCHANGED <<m_handlers, m_mutex, held, nextToken, nops, hist>>

\* handlerId.lock() yields the Token and handler is an empty std::function:
\* lockedHandlerId owns the Token, and handler(args) is about to throw
\* std::bad_function_call; no callback runs.
TriggerInvokeEmpty(t) ==
    /\ AtTop(t, "Trigger", "loop")
    /\ WeakLock(CurrentEntry(Top(t))[1]) # Null
    /\ CurrentEntry(Top(t))[2] = "empty"
    /\ stack' = SetTop(t, [Top(t) EXCEPT !.pc = "throw"])
    /\ UNCHANGED <<m_handlers, m_mutex, held, nextToken, nops, hist>>

\* handler(args) throws std::bad_function_call, which nothing in Trigger
\* catches: unwinding destroys lockedHandlerId and the exception leaves Trigger.
TriggerBadFunctionCall(t) ==
    /\ AtTop(t, "Trigger", "throw")
    /\ stack' = Pop(t)
    /\ UNCHANGED <<m_handlers, m_mutex, held, nextToken, nops, hist>>

\* The callback exits by an exception, which nothing in Trigger catches: it
\* leaves the range-for and Trigger, and the tuples left are not invoked.  The
\* caller of Trigger gets the exception: user code, or the callback of an outer
\* Trigger, which catches it or exits by it in turn.
CallbackThrows(t) ==
    /\ AtTop(t, "Trigger", "call")
    /\ stack' = Pop(t)
    /\ UNCHANGED <<m_handlers, m_mutex, held, nextToken, nops, hist>>

\* The callback returns; lockedHandlerId is destroyed.
CallbackReturn(t) ==
    /\ AtTop(t, "Trigger", "call")
    /\ stack' = SetTop(t, [Top(t) EXCEPT !.i = @ + 1, !.pc = AfterEntry(Top(t))])
    /\ UNCHANGED <<m_handlers, m_mutex, held, nextToken, nops, hist>>

TriggerReturn(t) ==
    /\ AtTop(t, "Trigger", "done")
    /\ stack' = Pop(t)
    /\ UNCHANGED <<m_handlers, m_mutex, held, nextToken, nops, hist>>

\* ----------------------------------------------------------- EventHandler
\* Copy construction or copy assignment from a non-empty EventHandler.
CopyHandler(t, m) ==
    /\ CanCall(t)
    /\ held[m] >= 1
    /\ nops > 0
    /\ held' = [held EXCEPT ![m] = @ + 1]
    /\ nops' = nops - 1
    /\ hist' = [hist EXCEPT !.made[m] = @ + 1]
    /\ UNCHANGED <<m_handlers, m_mutex, stack, nextToken>>

\* Destruction of a non-empty EventHandler (scope exit).
DestroyHandler(t, m) ==
    /\ CanCall(t)
    /\ held[m] >= 1
    /\ held' = [held EXCEPT ![m] = @ - 1]
    /\ UNCHANGED <<m_handlers, m_mutex, stack, nextToken, nops, hist>>

\* ------------------------------------------------------------------- Next
\* One step of thread t: of user code, or of the call it is in.
Step(t) ==
    \/ \E handler \in Callbacks : SubscribeCall(t, handler)
    \/ SubscribeLock(t)
    \/ SubscribeEmplace(t)
    \/ SubscribeReturn(t)
    \/ ClearExpiredCall(t)
    \/ ClearExpiredLock(t)
    \/ ClearExpiredTest(t)
    \/ ClearExpiredErase(t)
    \/ \E h \in Markers \cup {Null} : UnsubscribeCall(t, h)
    \/ UnsubscribeLock(t)
    \/ UnsubscribeLockEntry(t)
    \/ UnsubscribeTest(t)
    \/ UnsubscribeErase(t)
    \/ UnsubscribeReturn(t)
    \/ ClearCall(t)
    \/ ClearLock(t)
    \/ ClearBody(t)
    \/ \E args \in Payloads : TriggerCall(t, args)
    \/ TriggerLock(t)
    \/ TriggerCopy(t)
    \/ TriggerSkip(t)
    \/ TriggerInvoke(t)
    \/ TriggerInvokeEmpty(t)
    \/ TriggerBadFunctionCall(t)
    \/ CallbackThrows(t)
    \/ CallbackReturn(t)
    \/ TriggerReturn(t)
    \/ \E m \in Markers : CopyHandler(t, m)
    \/ \E m \in Markers : DestroyHandler(t, m)

Next == \E t \in Threads : Step(t)

Spec == Init /\ [][Next]_vars

\* Every thread keeps running, and a thread that waits for the mutex gets it
\* when it is free again and again.
FairSpec == Spec /\ \A t \in Threads : SF_vars(Step(t))

\* ------------------------------------------------- sequential use (no overlap)
\* User code performs an operation only while no call is in progress on any
\* thread: no two operations overlap and no callback calls back into the Event.
Quiescent == \A t \in Threads : stack[t] = <<>>

SeqNext ==
    \E t \in Threads :
        \/ Quiescent /\ \E handler \in Callbacks : SubscribeCall(t, handler)
        \/ SubscribeLock(t)
        \/ SubscribeEmplace(t)
        \/ SubscribeReturn(t)
        \/ Quiescent /\ ClearExpiredCall(t)
        \/ ClearExpiredLock(t)
        \/ ClearExpiredTest(t)
        \/ ClearExpiredErase(t)
        \/ Quiescent /\ \E h \in Markers \cup {Null} : UnsubscribeCall(t, h)
        \/ UnsubscribeLock(t)
        \/ UnsubscribeLockEntry(t)
        \/ UnsubscribeTest(t)
        \/ UnsubscribeErase(t)
        \/ UnsubscribeReturn(t)
        \/ Quiescent /\ ClearCall(t)
        \/ ClearLock(t)
        \/ ClearBody(t)
        \/ Quiescent /\ \E args \in Payloads : TriggerCall(t, args)
        \/ TriggerLock(t)
        \/ TriggerCopy(t)
        \/ TriggerSkip(t)
        \/ TriggerInvoke(t)
        \/ TriggerInvokeEmpty(t)
        \/ TriggerBadFunctionCall(t)
        \/ CallbackThrows(t)
        \/ CallbackReturn(t)
        \/ TriggerReturn(t)
        \/ Quiescent /\ \E m \in Markers : CopyHandler(t, m)
        \/ Quiescent /\ \E m \in Markers : DestroyHandler(t, m)

\* The same Event after construction, with the budget of the sequential runs.
SeqInit ==
    /\ m_handlers = <<>>
    /\ m_mutex = Free
    /\ stack = [t \in Threads |-> <<>>]
    /\ held = [m \in Markers |-> 0]
    /\ nextToken = 1
    /\ nops = MaxSeqOps
    /\ hist = [reg |-> {}, unsub |-> {}, noop |-> {}, cleared |-> FALSE,
               cb |-> [m \in Markers |-> "none"], made |-> [m \in Markers |-> 0]]

SeqSpec == SeqInit /\ [][SeqNext]_vars

\* --------------------------------------------- longer runs, two subscriptions
\* Every operation, in every interleaving and from inside callbacks, as in Next;
\* user code calls Subscribe at most MaxSubs times and performs MaxLongOps
\* operations in all.
LongNext ==
    \E t \in Threads :
        \/ nextToken <= MaxSubs /\ \E handler \in Callbacks : SubscribeCall(t, handler)
        \/ SubscribeLock(t)
        \/ SubscribeEmplace(t)
        \/ SubscribeReturn(t)
        \/ ClearExpiredCall(t)
        \/ ClearExpiredLock(t)
        \/ ClearExpiredTest(t)
        \/ ClearExpiredErase(t)
        \/ \E h \in Markers \cup {Null} : UnsubscribeCall(t, h)
        \/ UnsubscribeLock(t)
        \/ UnsubscribeLockEntry(t)
        \/ UnsubscribeTest(t)
        \/ UnsubscribeErase(t)
        \/ UnsubscribeReturn(t)
        \/ ClearCall(t)
        \/ ClearLock(t)
        \/ ClearBody(t)
        \/ \E args \in Payloads : TriggerCall(t, args)
        \/ TriggerLock(t)
        \/ TriggerCopy(t)
        \/ TriggerSkip(t)
        \/ TriggerInvoke(t)
        \/ TriggerInvokeEmpty(t)
        \/ TriggerBadFunctionCall(t)
        \/ CallbackThrows(t)
        \/ CallbackReturn(t)
        \/ TriggerReturn(t)
        \/ \E m \in Markers : CopyHandler(t, m)
        \/ \E m \in Markers : DestroyHandler(t, m)

\* The same Event after construction, with the budget of the longer runs.
LongInit ==
    /\ m_handlers = <<>>
    /\ m_mutex = Free
    /\ stack = [t \in Threads |-> <<>>]
    /\ held = [m \in Markers |-> 0]
    /\ nextToken = 1
    /\ nops = MaxLongOps
    /\ hist = [reg |-> {}, unsub |-> {}, noop |-> {}, cleared |-> FALSE,
               cb |-> [m \in Markers |-> "none"], made |-> [m \in Markers |-> 0]]

LongSpec == LongInit /\ [][LongNext]_vars

\* ============================================================== properties
FrameAt(x) == stack[x[1]][x[2]]

TriggerFrames == {x \in AllFrames : FrameAt(x).op = "Trigger"}

\* How often the Trigger call of frame f has invoked the callback of Token m.
InvCount(f, m) == Cardinality({j \in DOMAIN f.inv : f.inv[j].id = m})

\* The range-for of frame f has dealt with tmpHandlers[j]: skipped or invoked it.
Passed(f, j) == j < f.i \/ (j = f.i /\ f.pc = "call")

\* The pcs at which a frame's lock_guard owns m_mutex.
CriticalPcs == {"emplace", "erase", "compare", "clear", "copy"}

\* The j-th smallest element of a set of Tokens (j-th Subscribe call).
Nth(S, j) == CHOOSE m \in S : Cardinality({x \in S : x < m}) = j - 1

\* --------------------------------------------------------------------- C1
\* C1: no thread owns m_mutex while it runs a subscriber callback.  A Trigger
\* frame that is past its copy of m_handlers (in its loop, in a callback, in the
\* call of an empty function, or done) does not own the mutex, and whoever owns the mutex is in the locked
\* block of its innermost call.
C1_LockReleasedBeforeCallbacks ==
    \A t \in Threads :
        /\ (stack[t] # <<>> /\ Top(t).op = "Trigger"
               /\ Top(t).pc \in {"loop", "call", "throw", "done"})
              => m_mutex # t
        /\ m_mutex = t => (stack[t] # <<>> /\ Top(t).pc \in CriticalPcs)

\* A thread runs a callback while another thread owns the mutex.
C1_Witness ==
    \E t, u \in Threads :
        /\ t # u
        /\ AtTop(t, "Trigger", "call")
        /\ m_mutex = u

\* --------------------------------------------------------------------- C2
\* C2: a call made from inside a callback is never stuck on the mutex.  A
\* thread that waits for m_mutex never waits for a mutex it owns itself, and
\* the owner, if any, is in a locked block, which it leaves in its next step
\* without waiting for anything.
C2_NoThreadBlockedOnMutex ==
    \A t \in Threads :
        (stack[t] # <<>> /\ Top(t).pc = "lock") =>
            /\ m_mutex # t
            /\ m_mutex # Free => (stack[m_mutex] # <<>> /\ Top(m_mutex).pc \in CriticalPcs)

\* C2, as progress under FairSpec: a thread that waits for the mutex stops
\* waiting, and every call in progress returns.
C2_EveryCallReturns ==
    \A t \in Threads :
        /\ (stack[t] # <<>> /\ Top(t).pc = "lock") ~> ~(stack[t] # <<>> /\ Top(t).pc = "lock")
        /\ stack[t] # <<>> ~> stack[t] = <<>>

\* A callback has called Trigger again, and the nested call owns the mutex.
C2_Witness ==
    \E t \in Threads :
        /\ Len(stack[t]) >= 2
        /\ stack[t][1].op = "Trigger"
        /\ stack[t][1].pc = "call"
        /\ AtTop(t, "Trigger", "copy")
        /\ m_mutex = t

\* --------------------------------------------------------------------- C3
\* What a Trigger call is to invoke when nothing overlaps it: the subscriptions
\* registered and held at its snapshot, in the order of their Subscribe calls,
\* each with the callback given to Subscribe and the payload given to Trigger.
Expected(f) ==
    LET S == f.snap.reg \cap f.snap.held
    IN  [j \in 1..Cardinality(S) |->
            [id |-> Nth(S, j), handler |-> hist.cb[Nth(S, j)], args |-> f.args, reg |-> TRUE,
             held |-> TRUE]]

\* C3: without overlapping operations, a finished Trigger(p) has invoked the
\* callback of every subscription whose token is held exactly once, in the order
\* of the Subscribe calls, each with payload p.  A Trigger call has finished
\* when its loop is through (pc "done"); a call that a callback leaves by an
\* exception never gets there (CallbackThrows, TriggerBadFunctionCall).
C3_EachOnceInOrderWithPayload ==
    \A t \in Threads :
        AtTop(t, "Trigger", "done") => Top(t).inv = Expected(Top(t))

\* A finished Trigger(150) over two held subscriptions.
C3_Witness ==
    \E t \in Threads :
        /\ AtTop(t, "Trigger", "done")
        /\ Top(t).args = 150
        /\ Len(Top(t).inv) = 2
        /\ \A m \in {1, 2} : held[m] >= 1

\* --------------------------------------------------------------------- C4
\* C4: a Trigger call that begins after the last EventHandler of a subscription
\* was destroyed never invokes that subscription's callback.
C4_NotInvokedAfterLastHandlerDestroyed ==
    \A x \in TriggerFrames :
        \A j \in DOMAIN FrameAt(x).inv : FrameAt(x).inv[j].id \notin FrameAt(x).dead0

\* --------------------------------------------------------------------- C5
\* C5: a Trigger whose snapshot is taken after Unsubscribe(token) returned does
\* not invoke that token's callback, though the token may still be held; it
\* still invokes, once, every other subscription that is registered at the
\* snapshot and whose token is held, by the time its loop is through.  Checked
\* under LongSpec, whose runs have room for the second subscription.
C5_UnsubscribedNotInvoked ==
    \A x \in TriggerFrames :
        LET f == FrameAt(x)
        IN  \A u \in f.snap.unsub :
                /\ InvCount(f, u) = 0
                /\ \A m \in f.snap.reg \ {u} :
                       (f.pc = "done" /\ held[m] >= 1) => InvCount(f, m) = 1

\* A finished Trigger that followed Unsubscribe(token): the token is still held
\* and its callback was not invoked; another subscription, registered at the
\* snapshot and held, was invoked once.
C5_Witness ==
    \E x \in TriggerFrames :
        LET f == FrameAt(x)
        IN  /\ f.pc = "done"
            /\ \E u \in f.snap.unsub :
                   /\ held[u] >= 1
                   /\ InvCount(f, u) = 0
                   /\ \E m \in f.snap.reg \ {u} : held[m] >= 1 /\ InvCount(f, m) = 1

\* --------------------------------------------------------------------- C6
\* The positions of Token m in the snapshot of frame f.
Positions(f, m) == {j \in DOMAIN f.tmpHandlers : f.tmpHandlers[j][1] = m}

\* C6 as claimed: a finished Trigger has invoked, exactly once, every
\* subscription that at its snapshot was registered (appended, and removed by
\* no Unsubscribe with its token and no Clear) with its token issued and held.
C6_InvokedByEveryTriggerInInterval ==
    \A x \in TriggerFrames :
        LET f == FrameAt(x)
        IN  f.pc = "done" =>
                \A m \in f.snap.reg \cap f.snap.held : InvCount(f, m) = 1

\* C6 as amended: such a subscription has exactly one tuple in the snapshot and
\* is invoked at most once; once the loop has dealt with its tuple it has been
\* invoked exactly once, with the callback given to Subscribe, if an
\* EventHandler of it still exists (then one existed when the loop reached it).
C6_InvokedWhileHandlerExists ==
    \A x \in TriggerFrames :
        LET f == FrameAt(x)
        IN  \A m \in f.snap.reg \cap f.snap.held :
                /\ Cardinality(Positions(f, m)) = 1
                /\ InvCount(f, m) <= 1
                /\ \A j \in Positions(f, m) :
                       (Passed(f, j) /\ held[m] >= 1) =>
                           /\ InvCount(f, m) = 1
                           /\ \A k \in DOMAIN f.inv :
                                  f.inv[k].id = m => f.inv[k].handler = hist.cb[m]

\* A finished Trigger has invoked a held subscription once although another
\* Subscribe appended its tuple after the snapshot.
C6_Witness ==
    \E x \in TriggerFrames :
        LET f == FrameAt(x)
        IN  /\ f.pc = "done"
            /\ \E m \in f.snap.reg \cap f.snap.held : held[m] >= 1 /\ InvCount(f, m) = 1
            /\ \E e \in Ids(m_handlers) : e \notin Ids(f.tmpHandlers)

\* --------------------------------------------------------------------- C7
\* C7: a Trigger invokes only tuples of its snapshot, and every Token it invokes
\* was registered when the snapshot was taken: a tuple appended later, by
\* another thread or by a callback of this Trigger, is not invoked by it.
C7_OnlySnapshotEntriesInvoked ==
    \A x \in TriggerFrames :
        LET f == FrameAt(x)
        IN  \A k \in DOMAIN f.inv :
                /\ f.inv[k].id \in f.snap.reg
                /\ \E j \in DOMAIN f.tmpHandlers :
                       f.tmpHandlers[j] = <<f.inv[k].id, f.inv[k].handler>>

\* A callback of a Trigger has subscribed; the Trigger has finished and has
\* invoked only what its snapshot held.
C7_Witness ==
    \E t \in Threads :
        /\ AtTop(t, "Trigger", "done")
        /\ Len(stack[t]) = 1
        /\ Top(t).inv # <<>>
        /\ \E e \in Ids(m_handlers) :
               /\ e \notin Ids(Top(t).tmpHandlers)
               /\ e \notin Top(t).snap.reg
               /\ held[e] >= 1
               /\ InvCount(Top(t), e) = 0

\* --------------------------------------------------------------------- C8
\* C8: a Trigger does not invoke a tuple that Unsubscribe (with its token) or
\* Clear removed from the Event after the snapshot and before the loop reached
\* it: every invocation is of a subscription still registered at that moment.
C8_RemovalSuppressesInvocation ==
    \A x \in TriggerFrames :
        \A k \in DOMAIN FrameAt(x).inv : FrameAt(x).inv[k].reg

\* --------------------------------------------------------------------- C9
\* C9: a subscription whose EventHandler has been copied stays active while any
\* of the copies exists: once the loop of a Trigger has dealt with its tuple,
\* the callback has been invoked exactly once unless no copy is left.
C9_ActiveWhileAnyCopyExists ==
    \A x \in TriggerFrames :
        LET f == FrameAt(x)
        IN  \A m \in f.snap.reg \cap f.snap.held :
                (hist.made[m] >= 2 /\ held[m] >= 1) =>
                    /\ Positions(f, m) # {}
                    /\ \A j \in Positions(f, m) : Passed(f, j) => InvCount(f, m) = 1

\* Two EventHandlers were made, one is destroyed, one is left: a finished
\* Trigger has invoked the callback.
C9_Witness ==
    \E x \in TriggerFrames :
        LET f == FrameAt(x)
        IN  /\ f.pc = "done"
            /\ \E m \in f.snap.reg :
                   hist.made[m] = 2 /\ held[m] = 1 /\ InvCount(f, m) = 1

\* -------------------------------------------------------------------- C10
\* C10: from the return of Clear until the next append, m_handlers is empty
\* whatever happens to the tokens issued before, and a Trigger whose snapshot is
\* taken in that time invokes nothing.
C10_NothingInvokedAfterClear ==
    /\ hist.cleared => m_handlers = <<>>
    /\ \A x \in TriggerFrames :
           FrameAt(x).snap.cleared =>
               FrameAt(x).inv = <<>> /\ FrameAt(x).tmpHandlers = <<>>

\* A finished Trigger that followed Clear, with an earlier token still held.
C10_Witness ==
    \E x \in TriggerFrames :
        /\ FrameAt(x).pc = "done"
        /\ FrameAt(x).snap.cleared
        /\ FrameAt(x).inv = <<>>
        /\ \E m \in Markers : held[m] >= 1
\* -------------------------------------------------------------------- C11
\* C11: Unsubscribe is idempotent.  Once Unsubscribe(token) has returned, no
\* tuple of the token is in m_handlers, then or later; and an Unsubscribe(token)
\* that finds no tuple of the token (an earlier Unsubscribe or Clear removed it)
\* leaves m_handlers exactly as it was, the other tuples included.
C11_UnsubscribeIdempotent ==
    /\ [](hist.unsub \cap Ids(m_handlers) = {})
    /\ [][\A t \in Threads :
              (/\ stack[t] # <<>>
               /\ Top(t).op = "Unsubscribe"
               /\ Top(t).pc \in {"erase", "compare"}
               /\ Top(t).ptr # Null
               /\ Top(t).ptr \notin Ids(m_handlers))
                  => m_handlers' = m_handlers]_vars

\* An Unsubscribe(token) has found no tuple of the token and has returned; the
\* tuple of another subscription is in m_handlers.
C11_Witness ==
    /\ Quiescent
    /\ m_handlers # <<>>
    /\ \E m \in hist.noop : held[m] >= 1 /\ m \in hist.unsub
\* -------------------------------------------------------------------- C12
\* A Subscribe call is in progress on some thread.
SubscribeInProgress == \E x \in AllFrames : FrameAt(x).op = "Subscribe"

\* C12: m_handlers is never corrupted by overlapping calls.  No Token has two
\* tuples; every tuple is the one a Subscribe call appended (its Token, its
\* callback) and that no Unsubscribe or Clear removed; the tuple of every
\* subscription whose token is kept is there.  Once all Subscribe calls have
\* returned, with every token kept and nothing unsubscribed or cleared,
\* m_handlers has exactly one tuple per Subscribe call.
C12_NoEntryLostOrDuplicated ==
    /\ \A i, j \in DOMAIN m_handlers : i # j => m_handlers[i][1] # m_handlers[j][1]
    /\ \A j \in DOMAIN m_handlers :
           /\ m_handlers[j][1] \in 1..(nextToken - 1)
           /\ m_handlers[j][2] = hist.cb[m_handlers[j][1]]
    /\ Ids(m_handlers) \subseteq hist.reg
    /\ \A m \in hist.reg : held[m] >= 1 => m \in Ids(m_handlers)
    /\ (/\ ~SubscribeInProgress
        /\ hist.reg = 1..(nextToken - 1)
        /\ \A m \in 1..(nextToken - 1) : held[m] >= 1)
           => (Len(m_handlers) = nextToken - 1 /\ Ids(m_handlers) = 1..(nextToken - 1))

\* Two Subscribe calls overlapped (the Token made second was appended first) and
\* have returned, both tokens are kept, and the Trigger of the other thread took
\* its snapshot between the two appends and is still dispatching.
C12_Witness ==
    /\ ~SubscribeInProgress
    /\ Len(m_handlers) = 2
    /\ m_handlers[1][1] > m_handlers[2][1]
    /\ \A m \in Ids(m_handlers) : held[m] >= 1
    /\ \E x \in TriggerFrames :
           /\ FrameAt(x).pc \in {"loop", "call"}
           /\ Len(FrameAt(x).tmpHandlers) = 1
\* -------------------------------------------------------------------- C13
\* C13: the Token of a subscription whose EventHandler has been issued is alive
\* (the weak_ptr in m_handlers locks) exactly while an EventHandler of it
\* exists: nothing but EventHandlers keeps a Token alive.
C13_AliveIffHandlerExists ==
    \A m \in Markers :
        hist.made[m] >= 1 => (~Expired(m) <=> held[m] >= 1)
\* -------------------------------------------------------------------- C14
\* C14: once a Subscribe or a Trigger call that was made after all the
\* EventHandlers of a subscription were destroyed has returned, the tuple of
\* that subscription is no longer in m_handlers.  dead0 of a frame holds the
\* Tokens that had no EventHandler left when the call was made; the call has
\* returned when its frame is about to be popped.
C14_StaleEntryRemovedByNextCall ==
    \A t \in Threads :
        (AtTop(t, "Trigger", "done") \/ AtTop(t, "Subscribe", "ret"))
            => Ids(m_handlers) \cap Top(t).dead0 = {}
\* -------------------------------------------------------------------- C15
\* C15: a Trigger skips the tuple of a subscription whose last EventHandler was
\* destroyed after the snapshot and before the loop reached the tuple, and goes
\* on with the rest of the snapshot in order: a subscription that had an
\* EventHandler at the snapshot is invoked only if it has one at that moment,
\* and the invocations follow the order of the snapshot.
C15_DestroyedBeforeReachedIsSkipped ==
    \A x \in TriggerFrames :
        LET f == FrameAt(x)
        IN  /\ \A k \in DOMAIN f.inv : f.inv[k].id \in f.snap.held => f.inv[k].held
            /\ \A k, l \in DOMAIN f.inv :
                   k < l => \E p, q \in DOMAIN f.tmpHandlers :
                                /\ p < q
                                /\ f.tmpHandlers[p][1] = f.inv[k].id
                                /\ f.tmpHandlers[q][1] = f.inv[l].id
\* -------------------------------------------------------------------- C16
\* The tuples of h that are in g too, in the order of h.
Survivors(h, g) == SelectSeq(h, LAMBDA e : \E j \in DOMAIN g : g[j] = e)

\* C16: m_handlers is ordered by the time of the appends.  Every step that
\* changes it either appends one tuple of a new Token at the tail, leaving the
\* others as they were, or removes tuples, leaving the others unmodified and in
\* the same relative order.
C16_AppendAtTailOrRemove ==
    [][\/ m_handlers' = m_handlers
       \/ /\ Len(m_handlers') = Len(m_handlers) + 1
          /\ SubSeq(m_handlers', 1, Len(m_handlers)) = m_handlers
          /\ m_handlers'[Len(m_handlers')][1] \notin Ids(m_handlers)
       \/ /\ Len(m_handlers') < Len(m_handlers)
          /\ m_handlers' = Survivors(m_handlers, m_handlers')]_vars

\* Three subscriptions were appended and the middle one was pruned: the first
\* and the last are left, in that order.
C16_Witness ==
    /\ Len(m_handlers) = 2
    /\ \E m \in hist.reg :
           /\ m \notin Ids(m_handlers)
           /\ m_handlers[1][1] < m
           /\ m < m_handlers[2][1]
\* -------------------------------------------------------------------- C17
\* C17: Unsubscribe(token) removes exactly the tuples whose weak_ptr locks to
\* the token's Token and leaves every other tuple, live or expired, unchanged,
\* whatever the token: with the empty shared_ptr of a moved-from EventHandler
\* no tuple locks to the token's Token, so nothing is removed.
C17_UnsubscribeRemovesOnlyItsEntries ==
    [][\A t \in Threads :
          (/\ AtTop(t, "Unsubscribe", "erase")
           /\ Len(stack'[t]) = Len(stack[t])
           /\ stack'[t][Len(stack'[t])].pc = "ret") =>
              m_handlers' = SelectSeq(m_handlers,
                                      LAMBDA e : Top(t).ptr = Null \/ e[1] # Top(t).ptr)]_vars
\* -------------------------------------------------------------------- C18
\* C18: ClearExpired removes every tuple whose Token has expired (when the pass
\* begins: exp0) and none whose Token is alive (when the pass ends), keeping
\* the order, and dispatch cannot tell whether it ran.  hist.reg is what
\* m_handlers would hold had no prune ever run.  A Token that has expired stays
\* expired; a registered subscription whose tuple is missing from m_handlers,
\* or from the snapshot of a Trigger, has expired, so a Trigger over the
\* unpruned sequence would skip it: it invokes the same callbacks, as often and
\* in the same order.
C18_PruneUnobservable ==
    /\ [](\A m \in hist.reg : m \notin Ids(m_handlers) => Expired(m))
    /\ [](\A x \in TriggerFrames :
             \A m \in FrameAt(x).snap.reg :
                 m \notin Ids(FrameAt(x).tmpHandlers) => Expired(m))
    /\ [][\A m \in Markers : (hist.made[m] >= 1 /\ Expired(m)) => Expired(m)']_vars
    /\ [][\A t \in Threads :
              (AtTop(t, "ClearExpired", "erase") /\ Len(stack'[t]) < Len(stack[t])) =>
                  /\ Ids(m_handlers') \cap Top(t).exp0 = {}
                  /\ m_handlers' = Survivors(m_handlers, m_handlers')
                  /\ \A j \in DOMAIN m_handlers :
                         ~Expired(m_handlers[j][1]) => m_handlers[j][1] \in Ids(m_handlers')]_vars

\* A subscription was abandoned and pruned by the next Subscribe; a Trigger
\* whose snapshot no longer has its tuple has finished and has invoked the
\* subscription that is left.
C18_Witness ==
    \E x \in TriggerFrames :
        LET f == FrameAt(x)
        IN  /\ f.pc = "done"
            /\ f.inv # <<>>
            /\ \E m \in f.snap.reg : m \notin Ids(f.tmpHandlers) /\ hist.made[m] >= 1
\* -------------------------------------------------------------------- C19
\* C19: Subscribe appends under the lock and prunes after releasing it.  When a
\* Subscribe call returns (its ClearExpired call has returned), m_handlers has
\* no tuple of a Token that had expired when the call was made (exp0), and its
\* prune pass runs without the mutex being held over from the append.
C19_SubscribePrunesExpired ==
    \A t \in Threads :
        /\ AtTop(t, "Subscribe", "ret") => Ids(m_handlers) \cap Top(t).exp0 = {}
        /\ (Len(stack[t]) >= 2 /\ AtTop(t, "ClearExpired", "lock")
               /\ stack[t][Len(stack[t]) - 1].op = "Subscribe") => m_mutex # t

\* A Subscribe call is about to return; a Token whose tuple was in m_handlers
\* had expired when the call was made (it is still registered: only a prune can
\* have removed its tuple).
C19_Witness ==
    \E t \in Threads :
        /\ AtTop(t, "Subscribe", "ret")
        /\ Top(t).exp0 \cap hist.reg # {}
        /\ Top(t).ptr \in Ids(m_handlers)
\* -------------------------------------------------------------------- C20
\* What is left of the loop of Trigger frame f: two per tuple not yet reached,
\* one less once the handler of the current tuple is called, nothing at the end.
Rank(f) ==
    IF f.pc = "done" THEN 0
    ELSE 2 * (Len(f.tmpHandlers) - f.i) + (IF f.pc = "loop" THEN 2 ELSE 1)

\* The Trigger frames that have taken their snapshot.
Dispatching ==
    {x \in TriggerFrames : FrameAt(x).pc \in {"loop", "call", "throw", "done"}}

\* C20: a Trigger call ends as soon as its callbacks return.  Its loop is over
\* the snapshot, which never changes: the loop is at a tuple of the snapshot
\* until it is done, it has invoked at most one callback per tuple it has
\* reached, and every step that changes the frame brings it nearer to its end
\* (or ends the call, when a callback exits by an exception), whatever is
\* subscribed meanwhile by its callbacks or by other threads.
C20_TriggerBoundedBySnapshot ==
    /\ [](\A x \in Dispatching :
             LET f == FrameAt(x)
             IN  /\ f.pc \in {"loop", "call", "throw"} => f.i \in 1..Len(f.tmpHandlers)
                 /\ f.pc = "done" => (f.i = Len(f.tmpHandlers) + 1 \/ f.tmpHandlers = <<>>)
                 /\ Len(f.inv) <= Len(f.tmpHandlers)
                 /\ Len(f.inv) <= f.i)
    /\ [][\A x \in Dispatching :
              x[2] \in DOMAIN stack'[x[1]] =>
                  LET f == FrameAt(x)
                      g == stack'[x[1]][x[2]]
                  IN  /\ g.op = "Trigger"
                      /\ g.tmpHandlers = f.tmpHandlers
                      /\ g = f \/ Rank(g) < Rank(f)]_vars

\* Under FairSpec every Trigger call returns.
C20_TriggerReturns ==
    \A t \in Threads :
        (stack[t] # <<>> /\ stack[t][1].op = "Trigger") ~> stack[t] = <<>>

\* A finished Trigger has invoked every tuple of its snapshot, and m_handlers
\* has grown since the snapshot was taken.
C20_Witness ==
    \E t \in Threads :
        /\ AtTop(t, "Trigger", "done")
        /\ Top(t).tmpHandlers # <<>>
        /\ Len(Top(t).inv) = Len(Top(t).tmpHandlers)
        /\ Len(m_handlers) > Len(Top(t).tmpHandlers)
====
